---- MODULE Spec2Model ----
(***************************************************************************)
(* A model of godeps (src/src/godeps.py): identity resolution of Go        *)
(* modules, the sorted report, the module-cache path decoding, the JSON    *)
(* stream decoder, the vendor/modules.txt parser and the vendor-tree       *)
(* reconciliation.                                                         *)
(*                                                                         *)
(* Python strings are sequences of one-character strings; Ord gives the    *)
(* code point of each character the model uses, so that string comparison  *)
(* is Python's (code point by code point).  Optional[T] is the record      *)
(* None or Some(v).                                                        *)
(***************************************************************************)
EXTENDS Integers, Sequences, FiniteSets, TLC

VARIABLES
    pc,                   \* the position of the operation under study
    module,               \* from_module: the Module passed in
    resolved,             \* from_module: what it returned or raised
    modules,              \* get_names_and_versions: the iterable passed in
    names_and_versions,   \* get_names_and_versions: what it returned or raised
    report,               \* _write_results: the text of the file written
    s,                    \* module cache: a path component before escaping
    escaped,              \* module cache: its escaped form, as on disk
    unescaped,            \* un_exclamation_mark: what it returned
    stream_parts,         \* how the text handed to _load_json_stream was made
    json_stream,          \* _load_json_stream: its argument
    i,                    \* _load_json_stream: the offset of the next value
    yielded,              \* _load_json_stream: the values yielded so far
    modules_txt,          \* parse_vendor: the text of vendor/modules.txt
    drop_unused,          \* parse_vendor: its argument
    line_no,              \* parse_vendor: the lines scanned so far
    parsed_modules,       \* parse_vendor: its list modules
    module_has_packages,  \* parse_vendor: its list module_has_packages
    vendor_result,        \* parse_vendor: what it returned
    vendor_dir,           \* _diff_vendor_modules: the tree below vendor/
    vendor_modules,       \* _diff_vendor_modules: the identified modules
    actual_vendor_dirs,   \* _diff_vendor_modules: its set actual_vendor_dirs
    vendor_diff           \* _diff_vendor_modules: what it returned

resolveVars == <<module, resolved>>
reportVars == <<modules, names_and_versions, report>>
codecVars == <<s, escaped, unescaped>>
streamVars == <<stream_parts, json_stream, i, yielded>>
vendorVars == <<modules_txt, drop_unused, line_no, parsed_modules,
                module_has_packages, vendor_result>>
treeVars == <<vendor_dir, vendor_modules, actual_vendor_dirs, vendor_diff>>

vars == <<pc, resolveVars, reportVars, codecVars, streamVars, vendorVars,
          treeVars>>

----------------------------------------------------------------------------
(* Bounds of the model. *)

MaxModules == 3     \* longest iterable handed to get_names_and_versions

----------------------------------------------------------------------------
(* Python values. *)

None == [has |-> FALSE]
Some(v) == [has |-> TRUE, v |-> v]

\* Code points of the characters the model's strings are made of.
Ord ==
    [c \in {"\n", " ", "!", "#", "-", ".", "/", "1", "2", "=", ">", "@",
            "A", "B", "[", "]", "a", "b", "c", "d", "e", "f", "i", "l",
            "p", "t", "v", "x", "{", "}", ","} |->
        CASE c = "\n" -> 10 [] c = " " -> 32 [] c = "!" -> 33 [] c = "#" -> 35
          [] c = "," -> 44 [] c = "-" -> 45 [] c = "." -> 46 [] c = "/" -> 47
          [] c = "1" -> 49 [] c = "2" -> 50 [] c = "=" -> 61 [] c = ">" -> 62
          [] c = "@" -> 64 [] c = "A" -> 65 [] c = "B" -> 66 [] c = "[" -> 91
          [] c = "]" -> 93 [] c = "a" -> 97 [] c = "b" -> 98 [] c = "c" -> 99
          [] c = "d" -> 100 [] c = "e" -> 101 [] c = "f" -> 102
          [] c = "i" -> 105 [] c = "l" -> 108 [] c = "p" -> 112
          [] c = "t" -> 116 [] c = "v" -> 118 [] c = "x" -> 120
          [] c = "{" -> 123 [] c = "}" -> 125]

\* str.__lt__: the first differing character decides, a proper prefix is less.
RECURSIVE StrLess(_, _)
StrLess(a, b) ==
    IF b = <<>> THEN FALSE
    ELSE IF a = <<>> THEN TRUE
    ELSE IF Head(a) # Head(b) THEN Ord[Head(a)] < Ord[Head(b)]
    ELSE StrLess(Tail(a), Tail(b))

\* Truthiness of an Optional[str]: None and "" are falsy.
Truthy(optstr) == optstr.has /\ optstr.v # <<>>

----------------------------------------------------------------------------
(* class Module, class NameVersion *)

\* Module(path, version=None, replace=None, main=False)
Module(path, version, replace, main) ==
    [path |-> path, version |-> version, replace |-> replace, main |-> main]

\* NameVersion(name, version)
NameVersion(name, version) == [name |-> name, version |-> version]

\* NameVersion.__str__: f"{self.name}@{self.version}"
NameVersionStr(nv) == nv.name \o <<"@">> \o nv.version

\* What a call returns or raises.
Returned(v) == [kind |-> "returned", value |-> v]
Raised(e) == [kind |-> "raised", error |-> e]
NotRun == [kind |-> "notrun"]

\* The name and the Optional version from_module selects, before its check.
SelectedCoordinate(m) ==
    IF ~m.replace.has
    THEN [name |-> m.path, version |-> m.version]
    ELSE IF Truthy(m.replace.v.version)
    THEN [name |-> m.replace.v.path, version |-> m.replace.v.version]
    ELSE [name |-> m.path, version |-> Some(m.replace.v.path)]

\* A slip in the precedence: a versioned replacement keeps the original path.
from_module_keeps_path(m) ==
    LET sel == IF m.replace.has /\ Truthy(m.replace.v.version)
               THEN [name |-> m.path, version |-> m.replace.v.version]
               ELSE SelectedCoordinate(m)
    IN  IF ~Truthy(sel.version) THEN Raised("ValueError")
        ELSE Returned(NameVersion(sel.name, sel.version.v))

\* NameVersion.from_module
from_module(m) ==
    LET sel == SelectedCoordinate(m)
    IN  IF ~Truthy(sel.version) THEN Raised("ValueError")
        ELSE Returned(NameVersion(sel.name, sel.version.v))

\* A slip: identities compared by their rendered name@version strings.
NameVersionLessRendered(x, y) == StrLess(NameVersionStr(x), NameVersionStr(y))

\* NamedTuple ordering: by name, then by version.
NameVersionLess(x, y) ==
    \/ StrLess(x.name, y.name)
    \/ x.name = y.name /\ StrLess(x.version, y.version)

\* sorted() of a set of NameVersion.
RECURSIVE SortedNameVersions(_)
SortedNameVersions(S) ==
    IF S = {} THEN <<>>
    ELSE LET least == CHOOSE x \in S : \A y \in S : ~NameVersionLess(y, x)
         IN  <<least>> \o SortedNameVersions(S \ {least})

Range(seq) == {seq[k] : k \in 1..Len(seq)}

\* get_names_and_versions
get_names_and_versions(ms) ==
    LET kept == {m \in Range(ms) : ~m.main}
        results == {from_module(m) : m \in kept}
    IN  IF \E r \in results : r.kind = "raised" THEN Raised("ValueError")
        ELSE Returned(SortedNameVersions({r.value : r \in results}))

\* "\n".join(strs)
RECURSIVE JoinNewline(_)
JoinNewline(strs) ==
    IF strs = <<>> THEN <<>>
    ELSE IF Len(strs) = 1 THEN strs[1]
    ELSE strs[1] \o <<"\n">> \o JoinNewline(Tail(strs))

\* _write_results: the text print() writes to the file, the results rendered
\* and joined by newlines, then print's own newline (for no result at all,
\* that newline alone).
write_results(results) ==
    JoinNewline([k \in 1..Len(results) |-> NameVersionStr(results[k])])
        \o <<"\n">>

----------------------------------------------------------------------------
(* Idle values of the components a specification does not exercise. *)

IdleResolve == module = None /\ resolved = NotRun
IdleReport == modules = <<>> /\ names_and_versions = NotRun /\ report = None
IdleCodec == s = <<>> /\ escaped = <<>> /\ unescaped = <<>>
IdleStream ==
    stream_parts = <<>> /\ json_stream = <<>> /\ i = 0 /\ yielded = <<>>
IdleVendor ==
    /\ modules_txt = <<>> /\ drop_unused = TRUE /\ line_no = 0
    /\ parsed_modules = <<>> /\ module_has_packages = <<>>
    /\ vendor_result = NotRun
IdleTree ==
    /\ vendor_dir = <<>> /\ vendor_modules = {} /\ actual_vendor_dirs = {}
    /\ vendor_diff = NotRun

----------------------------------------------------------------------------
(* SpecResolve: NameVersion.from_module on every Module of a small universe. *)

ResolvePaths == {<<>>, <<"a">>, <<"b">>}
ResolveVersions == {None, Some(<<>>), Some(<<"v">>), Some(<<"1">>)}
ResolveReplacements ==
    {None} \cup {Some(Module(p, v, None, FALSE)) :
                     p \in ResolvePaths, v \in ResolveVersions}
ResolveModules ==
    {Module(p, v, r, mn) : p \in ResolvePaths, v \in ResolveVersions,
                           r \in ResolveReplacements, mn \in BOOLEAN}

InitResolve ==
    /\ pc = "resolve"
    /\ module \in {Some(m) : m \in ResolveModules}
    /\ resolved = NotRun
    /\ IdleReport /\ IdleCodec /\ IdleStream /\ IdleVendor /\ IdleTree

Resolve ==
    /\ pc = "resolve"
    /\ resolved' = from_module(module.v)
    /\ pc' = "done"
    /\ UNCHANGED <<module, reportVars, codecVars, streamVars, vendorVars,
                   treeVars>>

NextResolve == Resolve

SpecResolve == InitResolve /\ [][NextResolve]_vars

(* C1: at the end of from_module, the result follows the three-case
   precedence (no replacement: the reference's own path and version; a
   replacement with a non-empty version: the replacement's path and version,
   whatever the reference's version; a replacement without one: the
   reference's path with the replacement's path as version), it raises
   exactly when the version so selected is absent or empty, and a returned
   version is never empty. *)
C1_Precedence ==
    pc = "done" =>
        LET r == module.v
            versioned == r.replace.has /\ r.replace.v.version.has
                            /\ r.replace.v.version.v # <<>>
            name == IF versioned THEN r.replace.v.path ELSE r.path
            version == IF ~r.replace.has THEN r.version
                       ELSE IF versioned THEN r.replace.v.version
                       ELSE Some(r.replace.v.path)
            empty == ~version.has \/ version.v = <<>>
        IN  /\ (resolved.kind = "raised") <=> empty
            /\ (resolved.kind = "returned") <=> ~empty
            /\ resolved.kind = "returned" =>
                   /\ resolved.value = [name |-> name, version |-> version.v]
                   /\ resolved.value.version # <<>>

\* A versioned replacement has superseded a reference that has a version of
\* its own.
C1_Witness ==
    /\ pc = "done"
    /\ module.v.replace.has
    /\ module.v.version = Some(<<"v">>)
    /\ module.v.replace.v.version = Some(<<"1">>)
    /\ module.v.replace.v.path = <<"b">>
    /\ module.v.path = <<"a">>
    /\ resolved = Returned(NameVersion(<<"b">>, <<"1">>))

----------------------------------------------------------------------------
(* SpecReport: get_names_and_versions, then _write_results. *)

Str_v1 == <<"v", "1">>
Str_v2 == <<"v", "2">>
Str_a == <<"a">>
Str_a_slash_b == <<"a", "/", "b">>
Str_a_dash_b == <<"a", "-", "b">>
Str_b == <<"b">>

ReportModules ==
    {Module(Str_a, Some(Str_v1), None, FALSE),
     Module(Str_a, Some(Str_v2), None, FALSE),
     Module(Str_a_slash_b, Some(Str_v1), None, FALSE),
     Module(Str_a_dash_b, Some(Str_v1), None, FALSE),
     Module(Str_b, Some(Str_v1), None, FALSE),
     Module(Str_b, None, None, TRUE),
     Module(Str_a_dash_b, Some(Str_v2), None, TRUE),
     Module(Str_b, Some(Str_v2),
            Some(Module(Str_a, Some(Str_v1), None, FALSE)), FALSE),
     Module(Str_a, Some(Str_v1),
            Some(Module(<<".", "/", "x">>, None, None, FALSE)), FALSE),
     Module(Str_a, None, None, FALSE)}

SeqsUpTo(S, n) == UNION {[1..k -> S] : k \in 0..n}

InitReport ==
    /\ pc = "identify"
    /\ modules \in SeqsUpTo(ReportModules, MaxModules)
    /\ names_and_versions = NotRun
    /\ report = None
    /\ IdleResolve /\ IdleCodec /\ IdleStream /\ IdleVendor /\ IdleTree

Identify ==
    /\ pc = "identify"
    /\ names_and_versions' = get_names_and_versions(modules)
    /\ pc' = IF names_and_versions'.kind = "returned" THEN "write" ELSE "failed"
    /\ UNCHANGED <<modules, report, resolveVars, codecVars, streamVars,
                   vendorVars, treeVars>>

WriteResults ==
    /\ pc = "write"
    /\ report' = Some(write_results(names_and_versions.value))
    /\ pc' = "done"
    /\ UNCHANGED <<modules, names_and_versions, resolveVars, codecVars,
                   streamVars, vendorVars, treeVars>>

NextReport == Identify \/ WriteResults

SpecReport == InitReport /\ [][NextReport]_vars

\* The identities of the non-main modules handed in.
ReportIdentities ==
    {NameVersion(
        IF ~m.replace.has \/ ~Truthy(m.replace.v.version) THEN m.path
        ELSE m.replace.v.path,
        IF ~m.replace.has THEN m.version.v
        ELSE IF Truthy(m.replace.v.version) THEN m.replace.v.version.v
        ELSE m.replace.v.path) : m \in {x \in Range(modules) : ~x.main}}

\* The lines of a text: the pieces its newlines end.
RECURSIVE TextLines(_)
TextLines(text) ==
    IF \A k \in 1..Len(text) : text[k] # "\n" THEN <<>>
    ELSE LET k == CHOOSE n \in 1..Len(text) :
                      text[n] = "\n" /\ \A m \in 1..(n - 1) : text[m] # "\n"
         IN  <<SubSeq(text, 1, k - 1)>> \o TextLines(SubSeq(text, k + 1, Len(text)))

(* C9 as stated: the lines written, name@version, one for each element of
   the list returned, are in strictly ascending lexicographic order as
   strings. *)
C9_RenderedAscending ==
    pc = "done" =>
        LET lines == TextLines(report.v)
        IN  \A k \in 1..(Len(lines) - 1) : StrLess(lines[k], lines[k + 1])

(* C9 as amended: the list get_names_and_versions returns holds exactly the
   identities of the non-main modules, each once, in strictly ascending order
   of the pair (name, version), compared name first and then version; the
   file written holds those identities rendered name@version, one to a line
   in that order, and a single empty line when the list is empty. *)
C9_TupleAscending ==
    pc = "done" =>
        LET nvs == names_and_versions.value
            lines == TextLines(report.v)
        IN  /\ Range(nvs) = ReportIdentities
            /\ \A k \in 1..(Len(nvs) - 1) :
                   \/ StrLess(nvs[k].name, nvs[k + 1].name)
                   \/ /\ nvs[k].name = nvs[k + 1].name
                      /\ StrLess(nvs[k].version, nvs[k + 1].version)
            /\ report.has
            /\ report.v # <<>> /\ report.v[Len(report.v)] = "\n"
            /\ IF nvs = <<>> THEN lines = << <<>> >>
               ELSE /\ Len(lines) = Len(nvs)
                    /\ \A k \in 1..Len(nvs) :
                           lines[k] = nvs[k].name \o <<"@">> \o nvs[k].version

\* A report of two identities made from three modules, one name a prefix of
\* the other, two modules resolving to one identity.
C9_Witness ==
    /\ pc = "done"
    /\ Len(modules) = 3
    /\ Len(names_and_versions.value) = 2
    /\ report = Some(<<"a", "@", "v", "1", "\n",
                       "a", "-", "b", "@", "v", "1", "\n">>)

----------------------------------------------------------------------------
(* SpecCodec: a path component is escaped as the module cache does, then
   decoded by un_exclamation_mark. *)

MaxLen == 3     \* longest path component escaped and decoded

Letters == {"a", "b", "A", "B"}

\* str.upper and str.lower on one character (ASCII).
UpperChar(c) == CASE c = "a" -> "A" [] c = "b" -> "B" [] OTHER -> c
LowerChar(c) == CASE c = "A" -> "a" [] c = "B" -> "b" [] OTHER -> c
IsUpper(c) == c \in {"A", "B"}

\* The escaping of the module cache: an uppercase letter becomes "!" and its
\* lowercase form.
RECURSIVE EscapePath(_)
EscapePath(str) ==
    IF str = <<>> THEN <<>>
    ELSE (IF IsUpper(Head(str)) THEN <<"!", LowerChar(Head(str))>>
          ELSE <<Head(str)>>) \o EscapePath(Tail(str))

\* str.split(sep) for a one-character sep: the pieces, empty ones included.
RECURSIVE SplitOn(_, _)
SplitOn(str, sep) ==
    IF \A k \in 1..Len(str) : str[k] # sep THEN <<str>>
    ELSE LET k == CHOOSE n \in 1..Len(str) :
                      str[n] = sep /\ \A m \in 1..(n - 1) : str[m] # sep
         IN  <<SubSeq(str, 1, k - 1)>> \o SplitOn(SubSeq(str, k + 1, Len(str)), sep)

\* str.capitalize: the first character uppercased, the rest lowercased.
Capitalize(str) ==
    [k \in 1..Len(str) |-> IF k = 1 THEN UpperChar(str[k]) ELSE LowerChar(str[k])]

\* "".join(pieces)
RECURSIVE Concat(_)
Concat(pieces) ==
    IF pieces = <<>> THEN <<>> ELSE Head(pieces) \o Concat(Tail(pieces))

\* A slip: the first piece is capitalized like the others.
un_exclamation_mark_all(str) ==
    LET pieces == SplitOn(str, "!")
    IN  Concat([k \in 1..Len(pieces) |-> Capitalize(pieces[k])])

\* parse_gomodcache.un_exclamation_mark
un_exclamation_mark(str) ==
    LET pieces == SplitOn(str, "!")
        first == Head(pieces)
        rest == Tail(pieces)
    IN  first \o Concat([k \in 1..Len(rest) |-> Capitalize(rest[k])])

InitCodec ==
    /\ pc = "escape"
    /\ s \in SeqsUpTo(Letters, MaxLen)
    /\ escaped = <<>>
    /\ unescaped = <<>>
    /\ IdleResolve /\ IdleReport /\ IdleStream /\ IdleVendor /\ IdleTree

Escape ==
    /\ pc = "escape"
    /\ escaped' = EscapePath(s)
    /\ pc' = "unescape"
    /\ UNCHANGED <<s, unescaped, resolveVars, reportVars, streamVars,
                   vendorVars, treeVars>>

Unescape ==
    /\ pc = "unescape"
    /\ unescaped' = un_exclamation_mark(escaped)
    /\ pc' = "done"
    /\ UNCHANGED <<s, escaped, resolveVars, reportVars, streamVars,
                   vendorVars, treeVars>>

NextCodec == Escape \/ Unescape

SpecCodec == InitCodec /\ [][NextCodec]_vars

(* C8: for every string of ASCII letters, un_exclamation_mark applied to its
   escaped form gives the string back. *)
C8_RoundTrip == pc = "done" => unescaped = s

\* A leading uppercase letter followed by another and a lowercase one.
C8_Witness ==
    /\ pc = "done"
    /\ s = <<"A", "B", "a">>
    /\ escaped = <<"!", "a", "!", "b", "a">>
    /\ unescaped = s

----------------------------------------------------------------------------
(* json.JSONDecoder.raw_decode, on texts made of the characters
   { } [ ] , 1 space newline x: objects without members, arrays, integers
   written with the digit 1.  Offsets are Python's (the first character is at
   offset 0). *)

MaxValues == 2     \* most values in a stream handed to _load_json_stream

Whitespace == {" ", "\n"}

\* s[idx:idx + 1]: the character at an offset, "" beyond the end.
CharAt(str, idx) == IF idx < Len(str) THEN str[idx + 1] ELSE ""

\* WHITESPACE.match(s, idx).end(): the offset after the whitespace at idx.
RECURSIVE SkipWhitespace(_, _)
SkipWhitespace(str, idx) ==
    IF CharAt(str, idx) \in Whitespace THEN SkipWhitespace(str, idx + 1)
    ELSE idx

\* The decoded values.
JsonObject == [t |-> "object"]
JsonArray(items) == [t |-> "array", items |-> items]
JsonInt(n) == [t |-> "int", n |-> n]

Decoded(value, end) == [ok |-> TRUE, value |-> value, end |-> end]
DecodeError == [ok |-> FALSE]

\* NUMBER_RE.match: the offset after the digits at idx.
RECURSIVE NumberEnd(_, _)
NumberEnd(str, idx) ==
    IF CharAt(str, idx) = "1" THEN NumberEnd(str, idx + 1) ELSE idx

\* int() of a run of n digits 1.
RECURSIVE Ones(_)
Ones(n) == IF n = 0 THEN 0 ELSE 10 * Ones(n - 1) + 1

RECURSIVE scan_once(_, _)
RECURSIVE ArrayItems(_, _, _)

\* json.decoder.JSONObject, entered after the "{".
ParseObject(str, end) ==
    LET e == SkipWhitespace(str, end)
    IN  IF CharAt(str, e) = "}" THEN Decoded(JsonObject, e + 1)
        ELSE DecodeError

\* json.decoder.JSONArray, entered after the "[".
ParseArray(str, end) ==
    LET e == SkipWhitespace(str, end)
    IN  IF CharAt(str, e) = "]" THEN Decoded(JsonArray(<<>>), e + 1)
        ELSE ArrayItems(str, e, <<>>)

\* The loop of JSONArray: a value, then "]" or "," and the next value.
ArrayItems(str, end, values) ==
    LET r == scan_once(str, end)
    IN  IF ~r.ok THEN DecodeError
        ELSE LET e == SkipWhitespace(str, r.end)
                 nextchar == CharAt(str, e)
             IN  IF nextchar = "]"
                 THEN Decoded(JsonArray(Append(values, r.value)), e + 1)
                 ELSE IF nextchar # "," THEN DecodeError
                 ELSE ArrayItems(str, SkipWhitespace(str, e + 1),
                                 Append(values, r.value))

\* json.scanner.scan_once: no whitespace is skipped before the value.
scan_once(str, idx) ==
    LET nextchar == CharAt(str, idx)
    IN  CASE nextchar = "{" -> ParseObject(str, idx + 1)
          [] nextchar = "[" -> ParseArray(str, idx + 1)
          [] nextchar = "1" ->
                LET e == NumberEnd(str, idx)
                IN  Decoded(JsonInt(Ones(e - idx)), e)
          [] OTHER -> DecodeError

\* JSONDecoder.raw_decode(s, idx): the value and the offset after it, or
\* JSONDecodeError.
raw_decode(str, idx) == scan_once(str, idx)

\* One turn of the loop of _load_json_stream: the value at offset idx and the
\* offset the next turn starts from.
load_json_stream_step(str, idx) ==
    LET r == raw_decode(str, idx)
    IN  IF ~r.ok THEN [ok |-> FALSE]
        ELSE [ok |-> TRUE, data |-> r.value, i |-> r.end + 1]

----------------------------------------------------------------------------
(* SpecStream: _load_json_stream consumed to its end, as list() does in
   parse_download and parse_list_deps.  The text is made of JSON values, each
   followed by a separator: nothing, whitespace, or a character that belongs
   to no value. *)

JsonText(text, value) == [text |-> text, value |-> value]

StreamValues ==
    {JsonText(<<"{", "}">>, JsonObject),
     JsonText(<<"{", " ", "}">>, JsonObject),
     JsonText(<<"[", "]">>, JsonArray(<<>>)),
     JsonText(<<"[", "1", ",", " ", "1", "1", "]">>,
              JsonArray(<<JsonInt(1), JsonInt(11)>>)),
     JsonText(<<"[", "{", "}", "\n", ",", "[", "]", " ", "]">>,
              JsonArray(<<JsonObject, JsonArray(<<>>)>>))}

StreamSeparators ==
    {<<>>, <<"\n">>, <<" ">>, <<"\n", "\n">>, <<" ", "\n">>, <<"x">>,
     <<",">>, <<"\n", "x">>}

StreamParts ==
    {[text |-> v.text, value |-> v.value, sep |-> sep] :
         v \in StreamValues, sep \in StreamSeparators}

\* The text of a stream: each value followed by its separator.
RECURSIVE StreamText(_)
StreamText(parts) ==
    IF parts = <<>> THEN <<>>
    ELSE Head(parts).text \o Head(parts).sep \o StreamText(Tail(parts))

InitStream ==
    /\ pc = "decode"
    /\ stream_parts \in SeqsUpTo(StreamParts, MaxValues)
    /\ json_stream = StreamText(stream_parts)
    /\ i = 0
    /\ yielded = <<>>
    /\ IdleResolve /\ IdleReport /\ IdleCodec /\ IdleVendor /\ IdleTree

\* while i < len(json_stream): decode, advance, yield.
DecodeNext ==
    /\ pc = "decode"
    /\ i < Len(json_stream)
    /\ LET r == load_json_stream_step(json_stream, i)
       IN  IF r.ok
           THEN /\ yielded' = Append(yielded, r.data)
                /\ i' = r.i
                /\ pc' = "decode"
           ELSE /\ pc' = "raised"
                /\ UNCHANGED <<yielded, i>>
    /\ UNCHANGED <<stream_parts, json_stream, resolveVars, reportVars,
                   codecVars, vendorVars, treeVars>>

\* The loop ends: the generator is exhausted and list() returns.
StreamEnd ==
    /\ pc = "decode"
    /\ ~(i < Len(json_stream))
    /\ pc' = "done"
    /\ UNCHANGED <<streamVars, resolveVars, reportVars, codecVars, vendorVars,
                   treeVars>>

NextStream == DecodeNext \/ StreamEnd

SpecStream == InitStream /\ [][NextStream]_vars

\* The separators are all empty or whitespace: the text is a stream of valid
\* JSON values with nothing or whitespace between and after them.
WellFormedStream ==
    \A k \in 1..Len(stream_parts) :
        \A n \in 1..Len(stream_parts[k].sep) :
            stream_parts[k].sep[n] \in Whitespace

ExpectedValues == [k \in 1..Len(stream_parts) |-> stream_parts[k].value]

(* C3: a text of zero or more valid JSON values, with nothing or whitespace
   between and after them, is decoded without error into exactly those
   values, in order. *)
C3_DecodesEveryStream ==
    WellFormedStream =>
        /\ pc # "raised"
        /\ pc = "done" => yielded = ExpectedValues

(* C4: a text with a character that is neither part of a value nor
   whitespace between values never decodes to the end: no complete list of
   records comes out of a malformed stream. *)
C4_MalformedStreamFails == ~WellFormedStream => pc # "done"

----------------------------------------------------------------------------
(* GomodResolver.parse_vendor *)

MaxLines == 3     \* most lines in vendor/modules.txt

\* str.startswith
StartsWith(str, prefix) ==
    Len(str) >= Len(prefix) /\ SubSeq(str, 1, Len(prefix)) = prefix

\* str.removeprefix
RemovePrefix(str, prefix) ==
    IF StartsWith(str, prefix) THEN SubSeq(str, Len(prefix) + 1, Len(str))
    ELSE str

\* str.splitlines, for texts whose only line boundary is "\n".
RECURSIVE SplitLines(_)
SplitLines(text) ==
    IF text = <<>> THEN <<>>
    ELSE IF \A k \in 1..Len(text) : text[k] # "\n" THEN <<text>>
    ELSE LET k == CHOOSE n \in 1..Len(text) :
                      text[n] = "\n" /\ \A m \in 1..(n - 1) : text[m] # "\n"
         IN  <<SubSeq(text, 1, k - 1)>> \o SplitLines(SubSeq(text, k + 1, Len(text)))

\* str.split() without arguments: the runs of non-whitespace characters.
RECURSIVE SplitWhitespace(_)
SplitWhitespace(str) ==
    IF str = <<>> THEN <<>>
    ELSE IF Head(str) \in Whitespace THEN SplitWhitespace(Tail(str))
    ELSE LET n == CHOOSE m \in 1..Len(str) :
                      /\ \A q \in 1..m : str[q] \notin Whitespace
                      /\ m = Len(str) \/ str[m + 1] \in Whitespace
         IN  <<SubSeq(str, 1, n)>> \o SplitWhitespace(SubSeq(str, n + 1, Len(str)))

Arrow == <<"=", ">">>
ModuleLinePrefix == <<"#", " ">>
ExplicitPrefix == <<"#", "#", " ", "e", "x", "p", "l", "i", "c", "i", "t">>

\* parse_vendor.parse_module_line: the match statement, case by case.
parse_module_line(line) ==
    LET tk == SplitWhitespace(RemovePrefix(line, ModuleLinePrefix))
        n == Len(tk)
    IN  CASE n = 1 -> Returned(Module(tk[1], None, None, TRUE))
          [] n = 2 -> Returned(Module(tk[1], Some(tk[2]), None, FALSE))
          [] n = 3 /\ tk[2] = Arrow ->
                Returned(Module(tk[1], None,
                                Some(Module(tk[3], None, None, FALSE)), FALSE))
          [] n = 4 /\ tk[3] = Arrow ->
                Returned(Module(tk[1], Some(tk[2]),
                                Some(Module(tk[4], None, None, FALSE)), FALSE))
          [] n = 4 /\ tk[3] # Arrow /\ tk[2] = Arrow ->
                Returned(Module(tk[1], None,
                                Some(Module(tk[3], Some(tk[4]), None, FALSE)),
                                FALSE))
          [] n = 5 /\ tk[3] = Arrow ->
                Returned(Module(tk[1], Some(tk[2]),
                                Some(Module(tk[4], Some(tk[5]), None, FALSE)),
                                FALSE))
          [] OTHER -> Raised("ValueError")

Scanned(mods, flags) == [ok |-> TRUE, modules |-> mods, flags |-> flags]
ScanError == [ok |-> FALSE]

\* A slip: a package line marks the first module instead of the last.
scan_line_marks_first(mods, flags, line) ==
    IF StartsWith(line, ModuleLinePrefix)
    THEN LET m == parse_module_line(line)
         IN  IF m.kind = "raised" THEN ScanError
             ELSE Scanned(Append(mods, m.value), Append(flags, FALSE))
    ELSE IF ~StartsWith(line, <<"#">>)
    THEN IF mods = <<>> THEN ScanError
         ELSE Scanned(mods, [flags EXCEPT ![1] = TRUE])
    ELSE IF ~StartsWith(line, ExplicitPrefix) THEN ScanError
    ELSE Scanned(mods, flags)

\* A slip: a package line above the first module line is let through.
scan_line_lenient(mods, flags, line) ==
    IF StartsWith(line, ModuleLinePrefix)
    THEN LET m == parse_module_line(line)
         IN  IF m.kind = "raised" THEN ScanError
             ELSE Scanned(Append(mods, m.value), Append(flags, FALSE))
    ELSE IF ~StartsWith(line, <<"#">>)
    THEN IF mods = <<>> THEN Scanned(mods, flags)
         ELSE Scanned(mods, [flags EXCEPT ![Len(flags)] = TRUE])
    ELSE IF ~StartsWith(line, ExplicitPrefix) THEN ScanError
    ELSE Scanned(mods, flags)

\* One turn of the loop over the lines of modules.txt.
scan_line(mods, flags, line) ==
    IF StartsWith(line, ModuleLinePrefix)
    THEN LET m == parse_module_line(line)
         IN  IF m.kind = "raised" THEN ScanError
             ELSE Scanned(Append(mods, m.value), Append(flags, FALSE))
    ELSE IF ~StartsWith(line, <<"#">>)
    THEN IF mods = <<>> THEN ScanError
         ELSE Scanned(mods, [flags EXCEPT ![Len(flags)] = TRUE])
    ELSE IF ~StartsWith(line, ExplicitPrefix) THEN ScanError
    ELSE Scanned(mods, flags)

\* A slip: the replacement's version is looked at, not the module's.
is_wildcard_replacement_of_target(m) ==
    m.replace.has /\ ~Truthy(m.replace.v.version)

\* parse_vendor.is_wildcard_replacement
is_wildcard_replacement(m) == m.replace.has /\ ~Truthy(m.version)

\* The list comprehension parse_vendor returns.
RECURSIVE vendor_filter(_, _, _)
vendor_filter(mods, flags, drop) ==
    IF mods = <<>> THEN <<>>
    ELSE (IF /\ ~Head(mods).main
             /\ ~is_wildcard_replacement(Head(mods))
             /\ (Head(flags) \/ ~drop)
          THEN <<Head(mods)>> ELSE <<>>)
         \o vendor_filter(Tail(mods), Tail(flags), drop)

----------------------------------------------------------------------------
(* SpecVendor: parse_vendor on a modules.txt of up to MaxLines lines, line by
   line, then its filter.  The lines of VendorLines, in order:
     "# a"             the main module
     "# a v"           a module
     "# b v"           another module
     "#  b   v"        a module, with more blanks between the tokens
     "# b => p"        a replacement by a path, no version
     "# b v => p"      a module replaced by a path
     "# a => b v"      a replacement by a module, no version
     "# a v => b v"    a module replaced by a module
     "a/x"             a package line
     "## explicit"     the marker line
     "## explicit; a"  the marker line with more after it
     "#a"              neither a module line nor the marker
     "# a b c"         a module line of no known shape
     "# "              a module line without tokens
     ""                an empty line (a package line) *)

VendorLines ==
    {<<"#", " ", "a">>,
     <<"#", " ", "a", " ", "v">>,
     <<"#", " ", "b", " ", "v">>,
     <<"#", " ", " ", "b", " ", " ", " ", "v">>,
     <<"#", " ", "b", " ", "=", ">", " ", "p">>,
     <<"#", " ", "b", " ", "v", " ", "=", ">", " ", "p">>,
     <<"#", " ", "a", " ", "=", ">", " ", "b", " ", "v">>,
     <<"#", " ", "a", " ", "v", " ", "=", ">", " ", "b", " ", "v">>,
     <<"a", "/", "x">>,
     <<"#", "#", " ", "e", "x", "p", "l", "i", "c", "i", "t">>,
     <<"#", "#", " ", "e", "x", "p", "l", "i", "c", "i", "t", ";", " ", "a">>,
     <<"#", "a">>,
     <<"#", " ", "a", " ", "b", " ", "c">>,
     <<"#", " ">>,
     <<>>}

\* The text of a modules.txt: each line ended by a newline.
RECURSIVE JoinLines(_)
JoinLines(ls) ==
    IF ls = <<>> THEN <<>> ELSE Head(ls) \o <<"\n">> \o JoinLines(Tail(ls))

InitVendor ==
    /\ pc = "scan"
    /\ modules_txt \in {JoinLines(ls) : ls \in SeqsUpTo(VendorLines, MaxLines)}
    /\ drop_unused \in BOOLEAN
    /\ line_no = 0
    /\ parsed_modules = <<>>
    /\ module_has_packages = <<>>
    /\ vendor_result = NotRun
    /\ IdleResolve /\ IdleReport /\ IdleCodec /\ IdleStream /\ IdleTree

\* for line in modules_txt.read_text().splitlines(): ...
ScanLine ==
    /\ pc = "scan"
    /\ line_no < Len(SplitLines(modules_txt))
    /\ LET r == scan_line(parsed_modules, module_has_packages,
                          SplitLines(modules_txt)[line_no + 1])
       IN  IF r.ok
           THEN /\ parsed_modules' = r.modules
                /\ module_has_packages' = r.flags
                /\ line_no' = line_no + 1
                /\ UNCHANGED <<pc, vendor_result>>
           ELSE /\ pc' = "raised"
                /\ vendor_result' = Raised("ValueError")
                /\ UNCHANGED <<parsed_modules, module_has_packages, line_no>>
    /\ UNCHANGED <<modules_txt, drop_unused, resolveVars, reportVars,
                   codecVars, streamVars, treeVars>>

\* return [module for module, has_packages in zip(...) if ...]
Filter ==
    /\ pc = "scan"
    /\ line_no = Len(SplitLines(modules_txt))
    /\ vendor_result' =
           Returned(vendor_filter(parsed_modules, module_has_packages,
                                  drop_unused))
    /\ pc' = "done"
    /\ UNCHANGED <<modules_txt, drop_unused, line_no, parsed_modules,
                   module_has_packages, resolveVars, reportVars, codecVars,
                   streamVars, treeVars>>

NextVendor == ScanLine \/ Filter

SpecVendor == InitVendor /\ [][NextVendor]_vars

\* The lines of the manifest and what the grammar calls each.
ManifestLines == SplitLines(modules_txt)
IsModuleLine(l) == Len(l) >= 2 /\ l[1] = "#" /\ l[2] = " "
IsPackageLine(l) == l = <<>> \/ l[1] # "#"
IsMarkerLine(l) ==
    Len(l) >= 11 /\ SubSeq(l, 1, 11) = ExplicitPrefix

\* The tokens of a module line match one of the six shapes.
HasKnownShape(l) ==
    LET tk == SplitWhitespace(SubSeq(l, 3, Len(l)))
    IN  \/ Len(tk) \in {1, 2}
        \/ Len(tk) = 3 /\ tk[2] = Arrow
        \/ Len(tk) = 4 /\ (tk[2] = Arrow \/ tk[3] = Arrow)
        \/ Len(tk) = 5 /\ tk[3] = Arrow

\* The manifest holds one of the three things parse_vendor rejects.
ManifestIsRejectable ==
    LET ls == ManifestLines
    IN  \E k \in 1..Len(ls) :
            \/ IsPackageLine(ls[k]) /\ \A j \in 1..(k - 1) : ~IsModuleLine(ls[j])
            \/ ~IsPackageLine(ls[k]) /\ ~IsModuleLine(ls[k]) /\ ~IsMarkerLine(ls[k])
            \/ IsModuleLine(ls[k]) /\ ~HasKnownShape(ls[k])

(* C5: parse_vendor raises, and returns no list, for either drop_unused,
   when the manifest holds a package line above the first module line, a
   "#" line that is neither a module line nor an explicit marker, or a module
   line of none of the six shapes; every other manifest is accepted. *)
C5_RejectsWholeManifest ==
    /\ ManifestIsRejectable => pc # "done" /\ vendor_result.kind # "returned"
    /\ ~ManifestIsRejectable => pc # "raised" /\ vendor_result.kind # "raised"
    /\ pc = "raised" <=> vendor_result.kind = "raised"
    /\ pc = "done" <=> vendor_result.kind = "returned"

\* A manifest rejected at its third line, after a module with a package.
C5_Witness ==
    /\ pc = "raised"
    /\ modules_txt = JoinLines(<<<<"#", " ", "a", " ", "v">>, <<"a", "/", "x">>, <<"#", "a">>>>)
    /\ line_no = 2
    /\ vendor_result = Raised("ValueError")

\* The elements of a sequence at the positions of a set, in order.
RECURSIVE PickSeq(_, _, _)
PickSeq(seq, keep, k) ==
    IF k > Len(seq) THEN <<>>
    ELSE (IF k \in keep THEN <<seq[k]>> ELSE <<>>) \o PickSeq(seq, keep, k + 1)

(* C2 as stated: a parsed header is kept exactly when it is not the main
   module, it is not a replacement whose target carries no version, and it
   has a package line or drop_unused is false. *)
C2_WildcardByTargetVersion ==
    pc = "done" =>
        vendor_result.value =
            PickSeq(parsed_modules,
                    {k \in 1..Len(parsed_modules) :
                        /\ ~parsed_modules[k].main
                        /\ ~(/\ parsed_modules[k].replace.has
                             /\ ~parsed_modules[k].replace.v.version.has)
                        /\ (module_has_packages[k] \/ ~drop_unused)}, 1)

(* C2 as amended: a parsed header is kept exactly when it is not the main
   module, it is not a wildcard replacement, and it has a package line or
   drop_unused is false, where a wildcard replacement is a header with a
   replacement and no version of its own (name => path and
   name => newname newversion); a header with a version of its own
   (name version => ...) is never left out as a wildcard replacement. *)
C2_WildcardByOwnVersion ==
    pc = "done" =>
        vendor_result.value =
            PickSeq(parsed_modules,
                    {k \in 1..Len(parsed_modules) :
                        /\ ~parsed_modules[k].main
                        /\ ~(/\ parsed_modules[k].replace.has
                             /\ ~parsed_modules[k].version.has)
                        /\ (module_has_packages[k] \/ ~drop_unused)}, 1)

\* "# a => b v" is left out and "# b v => p" is kept.
C2_Witness ==
    /\ pc = "done"
    /\ ~drop_unused
    /\ modules_txt = JoinLines(<<<<"#", " ", "a", " ", "=", ">", " ", "b", " ", "v">>, <<"#", " ", "b", " ", "v", " ", "=", ">", " ", "p">>>>)
    /\ vendor_result =
           Returned(<<Module(<<"b">>, Some(<<"v">>),
                             Some(Module(<<"p">>, None, None, FALSE)), FALSE)>>)

\* The line numbers of the module lines among the first n lines, ascending.
RECURSIVE ModuleLineNos(_, _)
ModuleLineNos(ls, n) ==
    IF n = 0 THEN <<>>
    ELSE ModuleLineNos(ls, n - 1) \o (IF IsModuleLine(ls[n]) THEN <<n>> ELSE <<>>)

\* Among the first n lines, a package line lies below the k-th module line
\* and above the next module line.
PackageBelow(ls, n, k) ==
    LET heads == ModuleLineNos(ls, n)
        last == IF k < Len(heads) THEN heads[k + 1] - 1 ELSE n
    IN  \E j \in (heads[k] + 1)..last : IsPackageLine(ls[j])

(* C6: at every point of the scan, the flag of each module seen so far says
   whether a package line lies between its line and the next module line
   (or the last line scanned); so a package line sets only the flag of the
   most recent module, no flag is reset, and marker lines set none.  After
   the scan the modules returned are the non-main, non-wildcard ones that
   have such a package line when drop_unused is true, and all the non-main,
   non-wildcard ones when it is false. *)
C6_HasPackages ==
    pc \in {"scan", "done"} =>
        LET ls == ManifestLines
            heads == ModuleLineNos(ls, line_no)
        IN  /\ Len(parsed_modules) = Len(heads)
            /\ Len(module_has_packages) = Len(heads)
            /\ \A k \in 1..Len(heads) :
                   module_has_packages[k] = PackageBelow(ls, line_no, k)
            /\ pc = "done" =>
                   /\ line_no = Len(ls)
                   /\ vendor_result.value =
                          PickSeq(parsed_modules,
                                  {k \in 1..Len(heads) :
                                      /\ ~parsed_modules[k].main
                                      /\ ~is_wildcard_replacement(parsed_modules[k])
                                      /\ (drop_unused => PackageBelow(ls, Len(ls), k))},
                                  1)

\* A module with a package line and one without: the second is left out
\* when drop_unused is true.
C6_Witness ==
    /\ pc = "done"
    /\ drop_unused
    /\ modules_txt = JoinLines(<<<<"#", " ", "a", " ", "v">>, <<"a", "/", "x">>, <<"#", " ", "b", " ", "v">>>>)
    /\ module_has_packages = <<TRUE, FALSE>>
    /\ vendor_result = Returned(<<Module(<<"a">>, Some(<<"v">>), None, FALSE)>>)

----------------------------------------------------------------------------
(* _diff_vendor_modules and _get_diff.  A path is the sequence of its
   parts; the tree below vendor/ says of each path of VendorPaths whether
   it is absent, a directory or a regular file. *)

MaxKnown == 2     \* most identified modules handed to _diff_vendor_modules

\* Path(module_name): the parts between the slashes, empty parts dropped
\* (relative names only).
PathOf(name) ==
    LET pieces == SplitOn(name, "/")
    IN  SelectSeq(pieces, LAMBDA piece : piece # <<>>)

\* str(path): the parts joined by "/".
RECURSIVE PathStr(_)
PathStr(path) ==
    IF path = <<>> THEN <<".">>
    ELSE IF Len(path) = 1 THEN path[1]
    ELSE path[1] \o <<"/">> \o PathStr(Tail(path))

\* PurePath.is_relative_to: other is path or one of its ancestors, part by part.
IsRelativeTo(path, other) ==
    Len(other) <= Len(path) /\ SubSeq(path, 1, Len(other)) = other

P_a == <<"a">>
P_b == <<"b">>

VendorPaths ==
    {<<P_a>>, <<P_b>>, <<P_a, P_a>>, <<P_a, P_b>>, <<P_b, P_a>>,
     <<P_a, P_b, P_a>>, <<P_a, P_b, P_b>>, <<P_b, P_a, P_a>>}

\* Path.exists, Path.is_dir, Path.is_file below vendor/.
PathExists(tree, path) == path \in DOMAIN tree /\ tree[path] # "absent"
PathIsDir(tree, path) == path \in DOMAIN tree /\ tree[path] = "dir"
PathIsFile(tree, path) == path \in DOMAIN tree /\ tree[path] = "file"

\* Path.iterdir: the entries of a directory.
IterDir(tree, path) ==
    {q \in DOMAIN tree :
        /\ tree[q] # "absent"
        /\ Len(q) = Len(path) + 1
        /\ SubSeq(q, 1, Len(path)) = path}

\* A slip: the walk goes on below a directory that holds a file.
RECURSIVE find_unknown_vendor_dirs_deep(_, _, _)
find_unknown_vendor_dirs_deep(tree, identified, subdir) ==
    IF \E known \in identified : IsRelativeTo(subdir, known) THEN {}
    ELSE LET child_paths == IterDir(tree, subdir)
         IN  (IF \E c \in child_paths : PathIsFile(tree, c) THEN {subdir} ELSE {})
             \cup UNION {find_unknown_vendor_dirs_deep(tree, identified, c) :
                            c \in {d \in child_paths : PathIsDir(tree, d)}}

\* _diff_vendor_modules.find_unknown_vendor_dirs
RECURSIVE find_unknown_vendor_dirs(_, _, _)
find_unknown_vendor_dirs(tree, identified, subdir) ==
    IF \E known \in identified : IsRelativeTo(subdir, known) THEN {}
    ELSE LET child_paths == IterDir(tree, subdir)
         IN  IF \E c \in child_paths : PathIsFile(tree, c) THEN {subdir}
             ELSE UNION {find_unknown_vendor_dirs(tree, identified, c) :
                            c \in {d \in child_paths : PathIsDir(tree, d)}}

\* identified_vendor_dirs
identified_vendor_dirs(ms) == {PathOf(nv.name) : nv \in ms}

\* The directories the walk from the top of vendor/ yields.
unknown_vendor_dirs(tree, identified) ==
    UNION {find_unknown_vendor_dirs(tree, identified, top) :
              top \in {d \in IterDir(tree, <<>>) : PathIsDir(tree, d)}}

\* A slip: the identified paths are taken as present without a look.
compute_actual_vendor_dirs_unchecked(tree, identified) ==
    identified \cup unknown_vendor_dirs(tree, identified)

\* actual_vendor_dirs
compute_actual_vendor_dirs(tree, identified) ==
    {known \in identified : PathExists(tree, known)}
        \cup unknown_vendor_dirs(tree, identified)

\* sorted() of a set of strings.
RECURSIVE SortedStrings(_)
SortedStrings(S) ==
    IF S = {} THEN <<>>
    ELSE LET least == CHOOSE x \in S : \A y \in S : ~StrLess(y, x)
         IN  <<least>> \o SortedStrings(S \ {least})

\* The longest prefix of a sequence with no element of a set.
RECURSIVE PrefixWithout(_, _)
PrefixWithout(seq, S) ==
    IF seq = <<>> \/ Head(seq) \in S THEN <<>>
    ELSE <<Head(seq)>> \o PrefixWithout(Tail(seq), S)

\* The lines difflib.unified_diff marks removed ("-") and added ("+") for two
\* sorted lists without repeats: between two lines the lists share, the
\* lines removed and then the lines added.  The file and hunk headers and
\* the context lines are left out; no marked line means the empty text.
RECURSIVE DiffLines(_, _)
DiffLines(left, right) ==
    LET removed == PrefixWithout(left, Range(right))
        added == PrefixWithout(right, Range(left))
        marked == [k \in 1..Len(removed) |-> <<"-">> \o removed[k]]
                      \o [k \in 1..Len(added) |-> <<"+">> \o added[k]]
    IN  IF Len(removed) = Len(left) /\ Len(added) = Len(right) THEN marked
        ELSE marked \o DiffLines(SubSeq(left, Len(removed) + 2, Len(left)),
                                 SubSeq(right, Len(added) + 2, Len(right)))

\* _get_diff on two collections of strings.
get_diff(left, right) == DiffLines(SortedStrings(left), SortedStrings(right))

\* _diff_vendor_modules: its last line.
diff_vendor_dirs(identified, actual) ==
    get_diff({PathStr(q) : q \in identified}, {PathStr(q) : q \in actual})

----------------------------------------------------------------------------
(* SpecTree: _diff_vendor_modules on every tree over VendorPaths and up to
   MaxKnown identified modules. *)

\* Every entry lies in a directory.
IsTree(tree) ==
    \A q \in DOMAIN tree :
        (tree[q] # "absent" /\ Len(q) > 1) =>
            tree[SubSeq(q, 1, Len(q) - 1)] = "dir"

VendorTrees ==
    {tree \in [VendorPaths -> {"absent", "dir", "file"}] : IsTree(tree)}

VendorModuleNames ==
    {<<"a">>, <<"b">>, <<"a", "/", "b">>, <<"b", "/", "a">>,
     <<"a", "/", "a">>, <<"a", "/", "b", "/", "a">>, <<"b", "/", "b">>}

VendorModuleSets ==
    {ms \in SUBSET {NameVersion(n, Str_v1) : n \in VendorModuleNames} :
        Cardinality(ms) <= MaxKnown}

InitTree ==
    /\ pc = "diff"
    /\ vendor_dir \in VendorTrees
    /\ vendor_modules \in VendorModuleSets
    /\ actual_vendor_dirs = {}
    /\ vendor_diff = NotRun
    /\ IdleResolve /\ IdleReport /\ IdleCodec /\ IdleStream /\ IdleVendor

DiffVendorModules ==
    /\ pc = "diff"
    /\ LET identified == identified_vendor_dirs(vendor_modules)
           actual == compute_actual_vendor_dirs(vendor_dir, identified)
       IN  /\ actual_vendor_dirs' = actual
           /\ vendor_diff' = Returned(diff_vendor_dirs(identified, actual))
    /\ pc' = "done"
    /\ UNCHANGED <<vendor_dir, vendor_modules, resolveVars, reportVars,
                   codecVars, streamVars, vendorVars>>

NextTree == DiffVendorModules

SpecTree == InitTree /\ [][NextTree]_vars

\* The paths of the identified modules, part by part.
KnownPaths ==
    {SelectSeq(SplitOn(nv.name, "/"), LAMBDA piece : piece # <<>>) :
        nv \in vendor_modules}

\* path is other or lies below it.
IsAtOrBelow(path, other) ==
    /\ Len(other) <= Len(path)
    /\ \A k \in 1..Len(other) : path[k] = other[k]

\* A directory of the tree that directly holds a regular file.
HoldsFile(dir) ==
    /\ vendor_dir[dir] = "dir"
    /\ \E f \in VendorPaths :
           /\ vendor_dir[f] = "file"
           /\ Len(f) = Len(dir) + 1
           /\ IsAtOrBelow(f, dir)

(* C7: actual_vendor_dirs is the known paths that exist below vendor/,
   together with every directory that is not at or below a known path,
   directly holds a regular file, and has no proper ancestor below vendor/
   that directly holds one. *)
C7_ActualVendorDirs ==
    pc = "done" =>
        actual_vendor_dirs =
            {k \in KnownPaths : k \in VendorPaths /\ vendor_dir[k] # "absent"}
            \cup
            {d \in VendorPaths :
                /\ HoldsFile(d)
                /\ \A k \in KnownPaths : ~IsAtOrBelow(d, k)
                /\ \A n \in 1..(Len(d) - 1) : ~HoldsFile(SubSeq(d, 1, n))}

\* known = {a/b}, files a/b/a and b/a/a: the result is {a/b, b/a}.
C7_Witness ==
    /\ pc = "done"
    /\ vendor_modules = {NameVersion(<<"a", "/", "b">>, Str_v1)}
    /\ vendor_dir[<<P_a, P_b, P_a>>] = "file"
    /\ vendor_dir[<<P_b, P_a, P_a>>] = "file"
    /\ actual_vendor_dirs = {<<P_a, P_b>>, <<P_b, P_a>>}

(* C10: the diff is empty exactly when every identified path exists below
   vendor/ and every directory that directly holds a regular file is at or
   below an identified path; and no directory the walk yields is an
   identified path. *)
C10_PerfectMatch ==
    pc = "done" =>
        /\ (vendor_diff.value = <<>>) <=>
               /\ \A k \in KnownPaths :
                      k \in VendorPaths /\ vendor_dir[k] # "absent"
               /\ \A d \in VendorPaths :
                      HoldsFile(d) => \E k \in KnownPaths : IsAtOrBelow(d, k)
        /\ unknown_vendor_dirs(vendor_dir, KnownPaths) \cap KnownPaths = {}

\* A perfect match of two identified modules, one with files two levels down.
C10_Witness ==
    /\ pc = "done"
    /\ vendor_diff = Returned(<<>>)
    /\ Cardinality(vendor_modules) = 2
    /\ vendor_dir[<<P_a, P_b, P_a>>] = "file"
    /\ vendor_dir[<<P_b, P_a>>] = "file"

====
